---- MODULE Spec2Model ----
(***************************************************************************)
(* A model of graph_gen_web_app.py: the edge-geometry, node-style and      *)
(* hover-text builders, the height adjuster, plot_3d, and the upload cycle *)
(* of main().                                                              *)
(*                                                                         *)
(* A node is a record (a Python dict); `"edges" in item` is                *)
(* "edges" \in DOMAIN item.  Python's None inside a coordinate list is the *)
(* empty tuple None and a number v is the one-element tuple Num(v), so the *)
(* two are always comparable.  A raised exception is the "raised" field of *)
(* a call's result.                                                        *)
(***************************************************************************)
EXTENDS Integers, Sequences, FiniteSets, TLC

VARIABLES
    data,              \* the node list a call works on (list of dicts)
    material_mapping,  \* graph_const.material_mapping: material code -> class name
    material_colors,   \* graph_const.material_colors: class name -> color
    ret,               \* the last call of a function of the module and its outcome
    pc,                \* main(): position in the current script run
    session_state,     \* main(): st.session_state after the sidebar widgets ran
    uploaded_file,     \* main(): whether st.file_uploader returned a file
    temp_file,         \* main(): "none", "written", "partial" (write raised), "removed"
    json_data,         \* main(): what select_file returned
    pending,           \* main(): the exception travelling through the finally block
    calls,             \* main(): the calls made so far in this script run, in order
    shown              \* main(): the st.* outputs of this script run, in order

vars == <<data, material_mapping, material_colors, ret, pc, session_state,
          uploaded_file, temp_file, json_data, pending, calls, shown>>

-----------------------------------------------------------------------------
(* Bounds *)

MaxNodes == 2      \* longest node list
MaxEdges == 2      \* most edge entries in one node list (geometry inputs)

-----------------------------------------------------------------------------
(* Values *)

None == <<>>
Num(v) == <<v>>

Min(S) == CHOOSE m \in S : \A n \in S : m <= n

Flags == [show_links : BOOLEAN, show_material : BOOLEAN,
          show_gamma_radius : BOOLEAN, show_criteria : BOOLEAN]

SizeScales == {10, 50}

-----------------------------------------------------------------------------
(* get_edges *)

\* next((node for node in data if node["id"] == edge), None)
target_node(d, edge) ==
    LET matches == {i \in 1..Len(d) : d[i].id = edge}
    IN  IF matches = {} THEN None ELSE <<d[Min(matches)]>>

\* `if target_node:` a dict is true unless it is empty, None is false
Truthy(t) == t # None /\ DOMAIN t[1] # {}

\* the three extend() calls of one edge entry
ExtendNoSentinel(acc, item, t) ==
    [x |-> acc.x \o <<Num(item.x), Num(t.x)>>,
     y |-> acc.y \o <<Num(item.y), Num(t.y)>>,
     z |-> acc.z \o <<Num(item.z), Num(t.z)>>]

Extend(acc, item, t) ==
    [x |-> acc.x \o <<Num(item.x), Num(t.x), None>>,
     y |-> acc.y \o <<Num(item.y), Num(t.y), None>>,
     z |-> acc.z \o <<Num(item.z), Num(t.z), None>>]

\* for edge in item["edges"]: ...
RECURSIVE EdgeLoop(_, _, _, _)
EdgeLoop(d, item, k, acc) ==
    IF k > Len(item.edges) THEN acc
    ELSE LET t == target_node(d, item.edges[k])
         IN  EdgeLoop(d, item, k + 1,
                      IF Truthy(t) THEN Extend(acc, item, t[1]) ELSE acc)

\* for item in data: if "edges" in item: ...
RECURSIVE ItemLoop(_, _, _)
ItemLoop(d, i, acc) ==
    IF i > Len(d) THEN acc
    ELSE ItemLoop(d, i + 1,
                  IF "edges" \in DOMAIN d[i] THEN EdgeLoop(d, d[i], 1, acc)
                  ELSE acc)

get_edges(d) == ItemLoop(d, 1, [x |-> <<>>, y |-> <<>>, z |-> <<>>])

-----------------------------------------------------------------------------
(* prepare_node_colors_and_sizes *)

\* dict.get(key, default)
dict_get(tbl, key, default) == IF key \in DOMAIN tbl THEN tbl[key] ELSE default

node_color_purple_if_unmapped(material) ==
    IF material \in DOMAIN material_mapping
    THEN dict_get(material_colors, material_mapping[material], "purple")
    ELSE "purple"

\* material_colors.get(material_mapping.get(material, 'UNKNOWN'), 'purple')
node_color(material) ==
    dict_get(material_colors, dict_get(material_mapping, material, "UNKNOWN"), "purple")

\* item['radius'] * node_radius_size
node_size(radius, node_radius_size) == radius * node_radius_size

KeyError(key) == [raised |-> "KeyError", key |-> key]

\* for item in data: ... colors.append(color); sizes.append(...)
RECURSIVE StyleLoop(_, _, _, _)
StyleLoop(d, node_radius_size, i, acc) ==
    IF i > Len(d) THEN acc
    ELSE IF "material" \notin DOMAIN d[i] THEN KeyError("material")
    ELSE IF "radius" \notin DOMAIN d[i] THEN KeyError("radius")
    ELSE StyleLoop(d, node_radius_size, i + 1,
             [raised |-> "none",
              colors |-> Append(acc.colors, node_color(d[i].material)),
              sizes  |-> Append(acc.sizes, node_size(d[i].radius, node_radius_size))])

prepare_node_colors_and_sizes(d, node_radius_size) ==
    StyleLoop(d, node_radius_size, 1,
              [raised |-> "none", colors |-> <<>>, sizes |-> <<>>])

-----------------------------------------------------------------------------
(* prepare_hover_text *)

\* str() of an int
Str(n) == ToString(n)

\* sep.join(strs)
RECURSIVE Join(_, _)
Join(sep, strs) ==
    IF strs = <<>> THEN ""
    ELSE IF Len(strs) = 1 THEN strs[1]
    ELSE strs[1] \o sep \o Join(sep, Tail(strs))

\* ', '.join(map(str, item['edges']))
LinksText(edges) == Join(", ", [k \in 1..Len(edges) |-> Str(edges[k])])

\* the f-strings of the loop body, for an item that has every field read
HoverTextMaterialFirst(item, f) ==
    "Node ID: " \o Str(item.id)
    \o (IF f.show_material THEN "<br>Material: " \o Str(item.material) ELSE "")
    \o (IF f.show_links THEN "<br>Links: " \o LinksText(item.edges) ELSE "")
    \o (IF f.show_gamma_radius
        THEN "<br>Gamma: " \o Str(item.gamma) \o "<br>Radius: " \o Str(item.radius)
        ELSE "")
    \o (IF f.show_criteria THEN "<br>Criteria: " \o item.criteria ELSE "")

HoverText(item, f) ==
    "Node ID: " \o Str(item.id)
    \o (IF f.show_links THEN "<br>Links: " \o LinksText(item.edges) ELSE "")
    \o (IF f.show_material THEN "<br>Material: " \o Str(item.material) ELSE "")
    \o (IF f.show_gamma_radius
        THEN "<br>Gamma: " \o Str(item.gamma) \o "<br>Radius: " \o Str(item.radius)
        ELSE "")
    \o (IF f.show_criteria THEN "<br>Criteria: " \o item.criteria ELSE "")

\* the body of the loop: the text of one item, or the KeyError of the first
\* missing field a true flag makes it read
HoverItem(item, f) ==
    IF f.show_links /\ "edges" \notin DOMAIN item THEN KeyError("edges")
    ELSE IF f.show_material /\ "material" \notin DOMAIN item THEN KeyError("material")
    ELSE IF f.show_gamma_radius /\ "gamma" \notin DOMAIN item THEN KeyError("gamma")
    ELSE IF f.show_gamma_radius /\ "radius" \notin DOMAIN item THEN KeyError("radius")
    ELSE IF f.show_criteria /\ "criteria" \notin DOMAIN item THEN KeyError("criteria")
    ELSE [raised |-> "none", text |-> HoverText(item, f)]

\* for item in data: ... text_data.append(text)
RECURSIVE HoverLoop(_, _, _, _)
HoverLoop(d, f, i, acc) ==
    IF i > Len(d) THEN [raised |-> "none", text_data |-> acc]
    ELSE LET h == HoverItem(d[i], f)
         IN  IF h.raised # "none" THEN h
             ELSE HoverLoop(d, f, i + 1, Append(acc, h.text))

prepare_hover_text(d, f) == HoverLoop(d, f, 1, <<>>)

-----------------------------------------------------------------------------
(* adjust_node_height_data *)

SetZAndY(item) ==
    [k \in DOMAIN item \cup {"z"} |-> IF k \in {"y", "z"} THEN 0 ELSE item[k]]

\* item["z"] = 0
SetZ(item) == [k \in DOMAIN item \cup {"z"} |-> IF k = "z" THEN 0 ELSE item[k]]

\* if not node_height: for item in data: item["z"] = 0
\* return data            (the list is changed in place and returned)
adjust_node_height_data(d, node_height) ==
    IF ~node_height THEN [i \in 1..Len(d) |-> SetZ(d[i])] ELSE d

-----------------------------------------------------------------------------
(* plot_3d *)

PlotTypes == {"scatter", "surface", "line", "mesh"}

RecognizedAlways(plot_type) == TRUE

\* the if/elif chain reaches one of its four branches rather than the else
Recognized(plot_type) == plot_type \in PlotTypes

LogInfo(msg) == [level |-> "info", msg |-> msg]
LogError(msg) == [level |-> "error", msg |-> msg]

\* go.Scatter3d(..., mode='markers', marker=dict(color, size, symbol, sizemode))
ScatterTrace(x, y, z, colors, sizes, symbol, texts) ==
    [type |-> "Scatter3d", x |-> x, y |-> y, z |-> z, mode |-> "markers",
     marker |-> [color |-> colors, size |-> sizes, symbol |-> symbol,
                 sizemode |-> "diameter"],
     text |-> texts, hoverinfo |-> "text"]

\* go.Scatter3d(..., mode='markers', marker=dict(color, size, sizemode))
MarkerTrace(x, y, z, colors, sizes, texts) ==
    [type |-> "Scatter3d", x |-> x, y |-> y, z |-> z, mode |-> "markers",
     marker |-> [color |-> colors, size |-> sizes, sizemode |-> "diameter"],
     text |-> texts, hoverinfo |-> "text"]

\* go.Scatter3d(..., mode='lines+markers', marker=..., line=dict(color='red'))
LineTrace(x, y, z, colors, sizes, texts) ==
    [type |-> "Scatter3d", x |-> x, y |-> y, z |-> z, mode |-> "lines+markers",
     marker |-> [color |-> colors, size |-> sizes, sizemode |-> "diameter"],
     line |-> [color |-> "red"], text |-> texts, hoverinfo |-> "text"]

IntensityFromOne(colors) == [i \in 1..Len(colors) |-> i]

\* intensity = list(range(len(colors)))
Intensity(colors) == [i \in 1..Len(colors) |-> i - 1]

\* go.Mesh3d(..., opacity=0.5, intensity=intensity, cmin=0, cmax=len(colors)-1)
MeshTrace(x, y, z, colors, texts) ==
    [type |-> "Mesh3d", x |-> x, y |-> y, z |-> z, opacity |-> "0.5",
     hoverinfo |-> "text", hovertext |-> texts, intensity |-> Intensity(colors),
     colorscale |-> "Viridis", cmin |-> 0, cmax |-> Len(colors) - 1]

\* the traces the taken branch of the if/elif chain adds, in order
NodeTraces(plot_type, symbol, x, y, z, colors, sizes, texts) ==
    CASE plot_type = "scatter" -> <<ScatterTrace(x, y, z, colors, sizes, symbol, texts)>>
      [] plot_type = "surface" -> <<MarkerTrace(x, y, z, colors, sizes, texts)>>
      [] plot_type = "line"    -> <<LineTrace(x, y, z, colors, sizes, texts)>>
      [] plot_type = "mesh"    -> <<MeshTrace(x, y, z, colors, texts),
                                    MarkerTrace(x, y, z, colors, sizes, texts)>>
      [] OTHER                 -> <<>>

\* go.Scatter3d(x=edge_x, y=edge_y, z=edge_z, mode='lines', line=dict(color='red'))
EdgeTrace(e) ==
    [type |-> "Scatter3d", x |-> e.x, y |-> e.y, z |-> e.z, mode |-> "lines",
     line |-> [color |-> "red"]]

EdgeTracesAlways(show_links, e) == <<EdgeTrace(e)>>

\* if show_links: fig.add_trace(<edge trace>)
EdgeTraces(show_links, e) == IF show_links THEN <<EdgeTrace(e)>> ELSE <<>>

\* go.Figure() with the layout plot_3d sets and the traces added to it
Figure(traces) ==
    [layout |-> [aspectmode |-> "data", width |-> 800, height |-> 600],
     data |-> traces]

\* The outcome of one call: the exception raised ("none": it returned None),
\* the figures handed to st.plotly_chart, the log records written, how often
\* get_edges was called and the edge sequences the call held.
plot_3d(d, plot_type, symbol, f, node_radius_size) ==
    LET started == <<LogInfo("Generating 3D " \o plot_type \o " plot")>>
        x_data == [i \in 1..Len(d) |-> d[i].x]
        y_data == [i \in 1..Len(d) |-> d[i].y]
        z_data == [i \in 1..Len(d) |-> d[i].z]
        e == IF f.show_links THEN get_edges(d)
             ELSE [x |-> <<>>, y |-> <<>>, z |-> <<>>]
        hover == prepare_hover_text(d, f)
        style == prepare_node_colors_and_sizes(d, node_radius_size)
        out == [raised |-> "none", charted |-> <<>>, log |-> started,
                get_edges_calls |-> IF f.show_links THEN 1 ELSE 0, edges |-> e]
    IN  IF hover.raised # "none" THEN [out EXCEPT !.raised = hover.raised]
        ELSE IF style.raised # "none" THEN [out EXCEPT !.raised = style.raised]
        ELSE IF ~Recognized(plot_type)
             THEN [out EXCEPT !.log = started \o
                                <<LogError("Invalid plot type: " \o plot_type)>>]
        ELSE [out EXCEPT
                !.charted = <<Figure(
                    NodeTraces(plot_type, symbol, x_data, y_data, z_data,
                               style.colors, style.sizes, hover.text_data)
                    \o EdgeTraces(f.show_links, e))>>,
                !.log = started \o
                    <<LogInfo("3D " \o plot_type \o " plot generated successfully")>>]

-----------------------------------------------------------------------------
(* Inputs: node lists of the GraphNode shape, and the lookup tables *)

NodeIds == 1..MaxNodes
EdgeIds == 0..MaxNodes          \* 0 is the id of no node
Materials == {1, 9}             \* 9 is in no material_mapping below
Radii == {-1, 3}

\* a complete record; its position, gamma and criteria are fixed by its id
Node(id, material, radius, edges) ==
    [id |-> id, x |-> 10 * id, y |-> 10 * id + 1, z |-> 10 * id + 2,
     material |-> material, gamma |-> 10 * id + 3, radius |-> radius,
     criteria |-> "c" \o ToString(id), edges |-> edges]

\* lists of n nodes with distinct ids among ids, in any order, with at most
\* budget edge entries in all
RECURSIVE GeoListsOver(_, _, _)
GeoListsOver(n, ids, budget) ==
    IF n = 0 THEN {<<>>}
    ELSE UNION { UNION { { <<Node(id, 1, 3, e)>> \o rest :
                              e \in [1..k -> EdgeIds],
                              rest \in GeoListsOver(n - 1, ids \ {id}, budget - k) } :
                         k \in 0..budget } :
                 id \in ids }

GeoLists == UNION { GeoListsOver(n, NodeIds, MaxEdges) : n \in 0..MaxNodes }

\* lists of nodes 1..n that differ in material and radius and have no edges
StyleLists ==
    UNION { { [i \in 1..n |-> Node(i, m[i], r[i], <<>>)] :
                m \in [1..n -> Materials], r \in [1..n -> Radii] } :
            n \in 0..MaxNodes }

InputLists == GeoLists \cup StyleLists

OptionalFields == {"edges", "material", "gamma", "radius", "criteria"}

Without(item, k) == [j \in DOMAIN item \ {k} |-> item[j]]

\* structurally valid records (id, x, y, z present) of which each may lack
\* one optional field
PartialNodes(i) ==
    LET full == Node(i, 1, 3, <<>>)
    IN  {full} \cup { Without(full, k) : k \in OptionalFields }

PartialLists ==
    UNION { { d \in [1..n -> UNION { PartialNodes(i) : i \in 1..n }] :
                \A i \in 1..n : d[i].id = i } :
            n \in 0..MaxNodes }

\* lists of nodes 1..n, each with no edge or one edge to node 1
PlotLists ==
    UNION { { [i \in 1..n |-> Node(i, IF i = 2 THEN 9 ELSE 1, 3, e[i])] :
                e \in [1..n -> {<<>>, <<1>>}] } :
            n \in 0..MaxNodes }

EmptyTable == [k \in {} |-> ""]
DefaultMapping == 1 :> "GRASS"
DefaultColors == ("GRASS" :> "green") @@ ("UNKNOWN" :> "gray")
MappingTables == {EmptyTable, DefaultMapping}
ColorTables == {EmptyTable, "GRASS" :> "green", "UNKNOWN" :> "gray", DefaultColors}

GraphTypes == {"3D Scatter", "3D Surface", "3D Line", "3D Mesh"}
Symbols == {"circle", "diamond"}
CallPlotTypes == PlotTypes \cup {"torus"}

SessionStates ==
    [show_links : BOOLEAN, show_material : BOOLEAN, show_gamma_radius : BOOLEAN,
     show_criteria : BOOLEAN, show_table_data : BOOLEAN, node_height : BOOLEAN,
     node_radius_size : SizeScales, graph_type : GraphTypes, node_symbol : Symbols]

NoCall == [op |-> "none"]
NoJson == [kind |-> "unset"]
NoSession == [set |-> FALSE]

-----------------------------------------------------------------------------
(* Calls of the module's functions on their own *)

\* a call from outside main: it is made once and returns
Call ==
    /\ pc = "idle"
    /\ pc' = "returned"
    /\ UNCHANGED <<material_mapping, material_colors, session_state, uploaded_file,
                   temp_file, json_data, pending, calls, shown>>

GetEdgesCall(lists) ==
    /\ Call
    /\ \E d \in lists :
        /\ data' = d
        /\ ret' = [op |-> "get_edges", raised |-> "none", edges |-> get_edges(d)]

PrepareNodeColorsAndSizesCall(lists) ==
    /\ Call
    /\ \E d \in lists, scale \in SizeScales :
        /\ data' = d
        /\ ret' = [op |-> "prepare_node_colors_and_sizes",
                   node_radius_size |-> scale,
                   out |-> prepare_node_colors_and_sizes(d, scale)]

PrepareHoverTextCall(lists) ==
    /\ Call
    /\ \E d \in lists, f \in Flags :
        /\ data' = d
        /\ ret' = [op |-> "prepare_hover_text", flags |-> f,
                   out |-> prepare_hover_text(d, f)]

\* the list is changed in place: data is the argument after the call
AdjustNodeHeightDataCall(lists) ==
    /\ Call
    /\ \E d \in lists, node_height \in BOOLEAN :
        /\ data' = adjust_node_height_data(d, node_height)
        /\ ret' = [op |-> "adjust_node_height_data", node_height |-> node_height,
                   arg |-> d, result |-> data']

Plot3dCall ==
    /\ Call
    /\ \E d \in PlotLists, plot_type \in CallPlotTypes, symbol \in Symbols,
          f \in Flags, scale \in SizeScales :
        /\ data' = d
        /\ ret' = [op |-> "plot_3d", plot_type |-> plot_type, symbol |-> symbol,
                   flags |-> f, node_radius_size |-> scale,
                   out |-> plot_3d(d, plot_type, symbol, f, scale)]

-----------------------------------------------------------------------------
(* main(): one script run per user interaction *)

\* What select_file can return: None, "", a string that is not JSON, or the
\* JSON text of a document.  A document is a list of node records or a list
\* whose items are not dicts.
JsonNone == [kind |-> "None", empty |-> TRUE, parses |-> FALSE]
JsonEmptyStr == [kind |-> "str", empty |-> TRUE, parses |-> FALSE]
JsonMalformed == [kind |-> "str", empty |-> FALSE, parses |-> FALSE]
JsonOfNodes(d) == [kind |-> "str", empty |-> FALSE, parses |-> TRUE,
                   records |-> TRUE, doc |-> d]
JsonOfScalars == [kind |-> "str", empty |-> FALSE, parses |-> TRUE,
                  records |-> FALSE, doc |-> <<1>>]

SelectFileResults ==
    {JsonNone, JsonEmptyStr, JsonMalformed, JsonOfScalars}
        \cup { JsonOfNodes(d) : d \in PlotLists }

FalsyNever(j) == FALSE

\* `if not json_data:`
Falsy(j) == j.empty

AfterRaiseSkipsFinally == "done"

\* where control goes when a statement of the try body raises
AfterRaise == "finally"

\* the plot_type main passes for each graph type; "" when no branch is taken
PlotTypeOf(graph_type) ==
    CASE graph_type = "3D Scatter" -> "scatter"
      [] graph_type = "3D Surface" -> "surface"
      [] graph_type = "3D Line"    -> "line"
      [] graph_type = "3D Mesh"    -> "mesh"
      [] OTHER                     -> ""

\* The sidebar widgets set st.session_state, st.file_uploader returns a file or
\* None; with no file st.info is shown and the run is over.
MainRun ==
    /\ pc = "idle"
    /\ \E ss \in SessionStates, up \in BOOLEAN :
        /\ session_state' = ss
        /\ uploaded_file' = up
        /\ pc' = IF up THEN "write" ELSE "done"
        /\ shown' = IF up THEN <<>> ELSE <<"info">>
    /\ data' = <<>>
    /\ ret' = NoCall
    /\ temp_file' = "none"
    /\ json_data' = NoJson
    /\ pending' = "none"
    /\ calls' = <<>>
    /\ UNCHANGED <<material_mapping, material_colors>>

\* with tempfile.NamedTemporaryFile(delete=False) as temp_file: write(...)
\* A failing write leaves the file behind: the try block is not entered yet.
WriteTempFile ==
    /\ pc = "write"
    /\ \/ /\ temp_file' = "written"
          /\ pc' = "select_file"
          /\ UNCHANGED pending
       \/ /\ temp_file' = "partial"
          /\ pending' = "OSError"
          /\ pc' = "done"
    /\ UNCHANGED <<data, material_mapping, material_colors, ret, session_state,
                   uploaded_file, json_data, calls, shown>>

\* json_data = select_file(uploaded_path); if not json_data: st.error(...)
SelectFile ==
    /\ pc = "select_file"
    /\ calls' = Append(calls, "select_file")
    /\ \/ /\ pending' = "Exception"
          /\ pc' = AfterRaise
          /\ UNCHANGED <<json_data, shown>>
       \/ \E j \in SelectFileResults :
            /\ json_data' = j
            /\ IF Falsy(j)
               THEN shown' = Append(shown, "error") /\ pc' = "finally"
               ELSE shown' = shown /\ pc' = "loads"
            /\ UNCHANGED pending
    /\ UNCHANGED <<data, material_mapping, material_colors, ret, session_state,
                   uploaded_file, temp_file>>

\* data = json.loads(json_data)
JsonLoads ==
    /\ pc = "loads"
    /\ calls' = Append(calls, "json.loads")
    /\ IF json_data.parses
       THEN data' = json_data.doc /\ pc' = "adjust" /\ UNCHANGED pending
       ELSE /\ pending' = IF json_data.kind = "None" THEN "TypeError"
                          ELSE "JSONDecodeError"
            /\ pc' = AfterRaise
            /\ UNCHANGED data
    /\ UNCHANGED <<material_mapping, material_colors, ret, session_state,
                   uploaded_file, temp_file, json_data, shown>>

\* data = adjust_node_height_data(data, node_height); the table when asked.
\* item["z"] = 0 raises TypeError on an item that is not a dict.
AdjustStep ==
    /\ pc = "adjust"
    /\ calls' = Append(calls, "adjust_node_height_data")
    /\ IF ~json_data.records /\ ~session_state.node_height
       THEN /\ pending' = "TypeError"
            /\ pc' = AfterRaise
            /\ UNCHANGED <<data, shown>>
       ELSE /\ data' = IF json_data.records
                       THEN adjust_node_height_data(data, session_state.node_height)
                       ELSE data
            /\ shown' = IF session_state.show_table_data
                        THEN shown \o <<"subheader", "dataframe">> ELSE shown
            /\ pc' = "plot"
            /\ UNCHANGED pending
    /\ UNCHANGED <<material_mapping, material_colors, ret, session_state,
                   uploaded_file, temp_file, json_data>>

\* the if/elif chain over graph_type, each branch one plot_3d call.
\* item['x'] raises TypeError on an item that is not a dict.
PlotStep ==
    /\ pc = "plot"
    /\ LET plot_type == PlotTypeOf(session_state.graph_type)
           f == [show_links |-> session_state.show_links,
                 show_material |-> session_state.show_material,
                 show_gamma_radius |-> session_state.show_gamma_radius,
                 show_criteria |-> session_state.show_criteria]
       IN  IF plot_type = ""
           THEN pc' = "finally" /\ UNCHANGED <<ret, calls, shown, pending>>
           ELSE /\ calls' = Append(calls, "plot_3d")
                /\ IF ~json_data.records
                   THEN /\ pending' = "TypeError"
                        /\ pc' = AfterRaise
                        /\ UNCHANGED <<ret, shown>>
                   ELSE LET out == plot_3d(data, plot_type, session_state.node_symbol,
                                          f, session_state.node_radius_size)
                        IN  /\ ret' = [op |-> "plot_3d", plot_type |-> plot_type,
                                       symbol |-> session_state.node_symbol,
                                       flags |-> f,
                                       node_radius_size |->
                                           session_state.node_radius_size,
                                       out |-> out]
                            /\ shown' = IF out.charted # <<>>
                                        THEN Append(shown, "plotly_chart")
                                        ELSE shown
                            /\ pending' = out.raised
                            /\ pc' = IF out.raised = "none" THEN "finally"
                                     ELSE AfterRaise
    /\ UNCHANGED <<data, material_mapping, material_colors, session_state,
                   uploaded_file, temp_file, json_data>>

\* finally: os.remove(uploaded_path); a pending exception then leaves main
Finally ==
    /\ pc = "finally"
    /\ calls' = Append(calls, "os.remove")
    /\ temp_file' = "removed"
    /\ pc' = "done"
    /\ UNCHANGED <<data, material_mapping, material_colors, ret, session_state,
                   uploaded_file, json_data, pending, shown>>

\* The call or the script run is over: its locals are gone, the process and
\* its lookup tables stay.
Return ==
    /\ pc \in {"returned", "done"}
    /\ data' = <<>>
    /\ ret' = NoCall
    /\ pc' = "idle"
    /\ session_state' = NoSession
    /\ uploaded_file' = FALSE
    /\ temp_file' = "none"
    /\ json_data' = NoJson
    /\ pending' = "none"
    /\ calls' = <<>>
    /\ shown' = <<>>
    /\ UNCHANGED <<material_mapping, material_colors>>

-----------------------------------------------------------------------------
(* Specifications *)

InitCommon ==
    /\ data = <<>>
    /\ ret = NoCall
    /\ pc = "idle"
    /\ session_state = NoSession
    /\ uploaded_file = FALSE
    /\ temp_file = "none"
    /\ json_data = NoJson
    /\ pending = "none"
    /\ calls = <<>>
    /\ shown = <<>>

\* the builders and the height adjuster on GraphNode lists, any lookup tables
Init ==
    /\ InitCommon
    /\ material_mapping \in MappingTables
    /\ material_colors \in ColorTables

Builders(lists) ==
    \/ GetEdgesCall(lists)
    \/ PrepareNodeColorsAndSizesCall(lists)
    \/ PrepareHoverTextCall(lists)
    \/ AdjustNodeHeightDataCall(lists)
    \/ Return

Next == Builders(InputLists)

Spec == Init /\ [][Next]_vars

\* the same calls on records that may lack an optional field
NextPartial == Builders(PartialLists)

SpecPartial == Init /\ [][NextPartial]_vars

\* plot_3d on its own and the script runs of main, with the default tables
InitMain ==
    /\ InitCommon
    /\ material_mapping = DefaultMapping
    /\ material_colors \in {DefaultColors, "GRASS" :> "green"}

NextMain ==
    \/ Plot3dCall
    \/ MainRun
    \/ WriteTempFile
    \/ SelectFile
    \/ JsonLoads
    \/ AdjustStep
    \/ PlotStep
    \/ Finally
    \/ Return

SpecMain == InitMain /\ [][NextMain]_vars

-----------------------------------------------------------------------------
(* Claims *)

IsCall(op) == pc = "returned" /\ ret.op = op

\* the edge entries of d that name the id of a node of d, as <<node index,
\* entry index>>
ValidEntries(d) ==
    { p \in UNION { {<<i, k>> : k \in 1..Len(d[i].edges)} : i \in 1..Len(d) } :
        \E j \in 1..Len(d) : d[j].id = d[p[1]].edges[p[2]] }

\* position of an entry among the valid entries: node-list order, then
\* edge-list order
EntryRank(d, p) ==
    Cardinality({ q \in ValidEntries(d) :
                    q[1] < p[1] \/ (q[1] = p[1] /\ q[2] <= p[2]) })

TargetOf(d, p) == d[CHOOSE j \in 1..Len(d) : d[j].id = d[p[1]].edges[p[2]]]

TripleAt(seq, r, a, b) ==
    /\ seq[3 * r - 2] = Num(a)
    /\ seq[3 * r - 1] = Num(b)
    /\ seq[3 * r] = None

TotalEdges(d) == Cardinality(UNION { {<<i, k>> : k \in 1..Len(d[i].edges)} : i \in 1..Len(d) })

\* C1: get_edges returns three sequences of equal length, the concatenation in
\* node-list order and then edge-list order of [source.c, target.c, None] for
\* every edge entry whose id is the id of a node of the list; an entry that
\* matches no node adds nothing, mutual entries are both emitted, so the length
\* is 3 * total_edge_count when every entry is valid and 0 with no edges.
C1_EdgeGeometry ==
    IsCall("get_edges") =>
        LET e == ret.edges
            n == Cardinality(ValidEntries(data))
        IN  /\ ret.raised = "none"
            /\ Len(e.x) = 3 * n /\ Len(e.y) = 3 * n /\ Len(e.z) = 3 * n
            /\ \A p \in ValidEntries(data) :
                 LET r == EntryRank(data, p)
                     src == data[p[1]]
                     tgt == TargetOf(data, p)
                 IN  /\ TripleAt(e.x, r, src.x, tgt.x)
                     /\ TripleAt(e.y, r, src.y, tgt.y)
                     /\ TripleAt(e.z, r, src.z, tgt.z)
            /\ (n = TotalEdges(data)) => Len(e.x) = 3 * TotalEdges(data)
            /\ (TotalEdges(data) = 0) => e.x = <<>> /\ e.y = <<>> /\ e.z = <<>>

\* two nodes that list each other, stored in the order id 2, id 1: both
\* entries are emitted
C1_Witness ==
    /\ IsCall("get_edges")
    /\ Len(data) = 2
    /\ data[1].id = 2 /\ data[1].edges = <<1>>
    /\ data[2].id = 1 /\ data[2].edges = <<2>>
    /\ Len(ret.edges.x) = 6

\* C3 as stated: colors and sizes have one entry per node, size i is
\* radius_i * size_scale, and a node whose material is absent from the
\* material-name table gets "purple" whatever the two tables hold.
C3_UnknownAlwaysPurple ==
    IsCall("prepare_node_colors_and_sizes") =>
        LET o == ret.out
        IN  /\ o.raised = "none"
            /\ Len(o.colors) = Len(data) /\ Len(o.sizes) = Len(data)
            /\ \A i \in 1..Len(data) :
                 /\ o.sizes[i] = data[i].radius * ret.node_radius_size
                 /\ data[i].material \notin DOMAIN material_mapping
                        => o.colors[i] = "purple"

\* C3 amended: colors and sizes have one entry per node, size i is
\* radius_i * size_scale without clamping, and a node whose material is absent
\* from the material-name table gets the color the color table holds for the
\* class name "UNKNOWN", and "purple" when the color table has no such entry.
C3_UnknownUsesUnknownClass ==
    IsCall("prepare_node_colors_and_sizes") =>
        LET o == ret.out
        IN  /\ o.raised = "none"
            /\ Len(o.colors) = Len(data) /\ Len(o.sizes) = Len(data)
            /\ \A i \in 1..Len(data) :
                 /\ o.sizes[i] = data[i].radius * ret.node_radius_size
                 /\ data[i].material \notin DOMAIN material_mapping
                        => o.colors[i] = IF "UNKNOWN" \in DOMAIN material_colors
                                         THEN material_colors["UNKNOWN"]
                                         ELSE "purple"

\* an unknown material after a known one, the color table has an "UNKNOWN"
\* entry, and a negative radius is scaled as it is
C3_Witness ==
    /\ IsCall("prepare_node_colors_and_sizes")
    /\ Len(data) = 2
    /\ data[1].material \in DOMAIN material_mapping
    /\ data[2].material \notin DOMAIN material_mapping
    /\ "UNKNOWN" \in DOMAIN material_colors
    /\ ret.out.colors[2] = material_colors["UNKNOWN"]
    /\ data[2].radius < 0 /\ ret.out.sizes[2] < 0

\* the string forms of the edge ids, each but the last followed by ", "
RECURSIVE CommaList(_)
CommaList(edges) ==
    IF Len(edges) = 0 THEN ""
    ELSE IF Len(edges) = 1 THEN ToString(edges[1])
    ELSE CommaList(SubSeq(edges, 1, Len(edges) - 1)) \o ", "
         \o ToString(edges[Len(edges)])

\* the sections in their fixed order, each with its flag
SectionTable(item, f) ==
    << <<f.show_links, "Links: " \o CommaList(item.edges)>>,
       <<f.show_material, "Material: " \o ToString(item.material)>>,
       <<f.show_gamma_radius, "Gamma: " \o ToString(item.gamma)
                              \o "<br>Radius: " \o ToString(item.radius)>>,
       <<f.show_criteria, "Criteria: " \o item.criteria>> >>

\* the first k sections of the table whose flag is true, each after "<br>"
RECURSIVE SectionsUpTo(_, _)
SectionsUpTo(table, k) ==
    IF k = 0 THEN ""
    ELSE SectionsUpTo(table, k - 1)
         \o (IF table[k][1] THEN "<br>" \o table[k][2] ELSE "")

Contains(text, pat) ==
    \E i \in 1..(Len(text) - Len(pat) + 1) : SubSeq(text, i, i + Len(pat) - 1) = pat

\* C4: prepare_hover_text returns one string per node in input order, each
\* "Node ID: <id>" followed by exactly the sections whose flag is true, each
\* after "<br>", in the order links, material, gamma+radius, criteria; with all
\* four flags false each string is exactly "Node ID: <id>" with no separator.
C4_HoverText ==
    IsCall("prepare_hover_text") =>
        LET o == ret.out
            f == ret.flags
        IN  /\ o.raised = "none"
            /\ Len(o.text_data) = Len(data)
            /\ \A i \in 1..Len(data) :
                 /\ o.text_data[i] = "Node ID: " \o ToString(data[i].id)
                                     \o SectionsUpTo(SectionTable(data[i], f), 4)
                 /\ (~f.show_links /\ ~f.show_material /\ ~f.show_gamma_radius
                     /\ ~f.show_criteria)
                        => /\ o.text_data[i] = "Node ID: " \o ToString(data[i].id)
                           /\ ~Contains(o.text_data[i], "<br>")

\* all four sections on two nodes, the first with two links
C4_Witness ==
    /\ IsCall("prepare_hover_text")
    /\ ret.flags.show_links /\ ret.flags.show_material
    /\ ret.flags.show_gamma_radius /\ ret.flags.show_criteria
    /\ Len(data) = 2
    /\ data[1].edges = <<2, 0>>
    /\ ret.out.text_data[1] =
         "Node ID: 1<br>Links: 2, 0<br>Material: 1<br>Gamma: 13<br>Radius: 3<br>Criteria: c1"
    /\ ret.out.text_data[2] =
         "Node ID: 2<br>Links: <br>Material: 1<br>Gamma: 23<br>Radius: 3<br>Criteria: c2"

\* C5: adjust_node_height_data(nodes, False) sets every z to 0 and leaves
\* every other field and the node order as they were; with True nothing is
\* modified; applying it again with the same flag changes nothing more.
C5_HeightAdjust ==
    IsCall("adjust_node_height_data") =>
        LET a == ret.arg
            r == ret.result
        IN  /\ data = r
            /\ Len(r) = Len(a)
            /\ ~ret.node_height =>
                 \A i \in 1..Len(a) :
                    /\ r[i].z = 0
                    /\ DOMAIN r[i] = DOMAIN a[i]
                    /\ \A k \in DOMAIN a[i] \ {"z"} : r[i][k] = a[i][k]
            /\ ret.node_height => r = a
            /\ adjust_node_height_data(r, ret.node_height) = r

\* two nodes with nonzero z, in the order id 2, id 1, flattened
C5_Witness ==
    /\ IsCall("adjust_node_height_data")
    /\ ~ret.node_height
    /\ Len(ret.arg) = 2
    /\ ret.arg[1].id = 2 /\ ret.arg[1].z = 22 /\ ret.arg[2].z = 12
    /\ data[1].z = 0 /\ data[2].z = 0 /\ data[1].id = 2

\* C7: none of the three builders raises on a structurally valid record that
\* lacks an optional field; each still returns its full result.
C7_BuildersNeverRaise ==
    /\ IsCall("get_edges") => ret.raised = "none"
    /\ IsCall("prepare_node_colors_and_sizes") =>
         /\ ret.out.raised = "none"
         /\ Len(ret.out.colors) = Len(data)
    /\ IsCall("prepare_hover_text") =>
         /\ ret.out.raised = "none"
         /\ Len(ret.out.text_data) = Len(data)

\* a plot_3d call, from outside or from main, has returned or raised
Plotted == ret.op = "plot_3d"

IsEdgeTrace(t) == t.type = "Scatter3d" /\ t.mode = "lines"

\* C2: for each of the four recognized modes plot_3d adds the edge-geometry
\* trace to the figure if and only if show_links is true; when it is false
\* get_edges is never invoked and the edge sequences are empty.
C2_EdgeTraceIffShowLinks ==
    (Plotted /\ ret.plot_type \in {"scatter", "surface", "line", "mesh"}) =>
        LET o == ret.out
            traces == o.charted[1].data
            edgeAt == { i \in 1..Len(traces) : IsEdgeTrace(traces[i]) }
        IN  /\ Len(o.charted) = 1
            /\ (edgeAt # {}) <=> ret.flags.show_links
            /\ \A i \in edgeAt :
                 /\ traces[i].x = get_edges(data).x
                 /\ traces[i].y = get_edges(data).y
                 /\ traces[i].z = get_edges(data).z
            /\ ~ret.flags.show_links =>
                 /\ o.get_edges_calls = 0
                 /\ o.edges = [x |-> <<>>, y |-> <<>>, z |-> <<>>]

\* main plots a surface without links of two nodes that have an edge entry
C2_Witness ==
    /\ Plotted /\ pc = "finally"
    /\ ret.plot_type = "surface"
    /\ ~ret.flags.show_links
    /\ Len(data) = 2 /\ data[2].edges = <<1>>
    /\ Len(ret.out.charted[1].data) = 1
    /\ ret.out.get_edges_calls = 0

\* C6: plot_3d with a mode that is none of scatter, surface, line, mesh logs
\* an invalid-plot-type error, returns without raising and hands no figure to
\* st.plotly_chart, also when show_links is true.
C6_InvalidModeNoFigure ==
    (Plotted /\ ret.plot_type \notin {"scatter", "surface", "line", "mesh"}) =>
        /\ ret.out.raised = "none"
        /\ ret.out.charted = <<>>
        /\ \E i \in 1..Len(ret.out.log) :
             /\ ret.out.log[i].level = "error"
             /\ ret.out.log[i].msg = "Invalid plot type: " \o ret.plot_type
        /\ \A i \in 1..Len(ret.out.log) :
             ret.out.log[i].msg # "3D " \o ret.plot_type \o " plot generated successfully"

\* mode "torus" with show_links on two nodes that have edge entries
C6_Witness ==
    /\ Plotted /\ pc = "returned"
    /\ ret.plot_type = "torus"
    /\ ret.flags.show_links
    /\ Len(data) = 2 /\ data[1].edges = <<1>> /\ data[2].edges = <<1>>
    /\ Len(ret.out.edges.x) = 6
    /\ ret.out.charted = <<>>

HasMarker(t) == "marker" \in DOMAIN t

\* C9: scatter, surface and line add exactly one per-node marker trace; mesh
\* adds the mesh trace, with intensity [0, 1, ..., n-1], and then the marker
\* trace; the symbol reaches the markers only in scatter mode; the edge trace,
\* when there is one, comes after all node traces.
C9_NodeTracesByMode ==
    (Plotted /\ ret.plot_type \in {"scatter", "surface", "line", "mesh"}) =>
        LET traces == ret.out.charted[1].data
            n == Len(data)
            nodeCount == IF ret.plot_type = "mesh" THEN 2 ELSE 1
            markers == traces[nodeCount]
        IN  /\ Len(traces) = nodeCount + (IF ret.flags.show_links THEN 1 ELSE 0)
            /\ \A i \in 1..nodeCount : ~IsEdgeTrace(traces[i])
            /\ \A i \in (nodeCount + 1)..Len(traces) : IsEdgeTrace(traces[i])
            /\ markers.type = "Scatter3d" /\ HasMarker(markers)
            /\ Len(markers.marker.color) = n /\ Len(markers.marker.size) = n
            /\ Len(markers.x) = n /\ Len(markers.text) = n
            /\ ret.plot_type = "mesh" =>
                 /\ traces[1].type = "Mesh3d"
                 /\ ~HasMarker(traces[1])
                 /\ Len(traces[1].intensity) = n
                 /\ \A i \in 1..n : traces[1].intensity[i] = i - 1
            /\ ret.plot_type = "scatter" => markers.marker.symbol = ret.symbol
            /\ ret.plot_type # "scatter" =>
                 \A i \in 1..Len(traces) :
                    HasMarker(traces[i]) => "symbol" \notin DOMAIN traces[i].marker

\* mesh of two nodes with links and symbol "diamond": mesh, markers, edges
C9_Witness ==
    /\ Plotted
    /\ ret.plot_type = "mesh" /\ ret.symbol = "diamond" /\ ret.flags.show_links
    /\ Len(data) = 2
    /\ Len(ret.out.charted[1].data) = 3
    /\ ret.out.charted[1].data[1].intensity = <<0, 1>>

InRun == pc \in {"write", "select_file", "loads", "adjust", "plot", "finally", "done"}

Called(name) == \E i \in 1..Len(calls) : calls[i] = name

\* C8: in a script run adjust_node_height_data and plot_3d are invoked only
\* after select_file returned a non-empty result; when it returned an empty
\* one an error is shown and neither runs in that run.
C8_GatedOnParse ==
    InRun =>
        /\ \A i \in 1..Len(calls) :
             calls[i] \in {"adjust_node_height_data", "plot_3d"} =>
                /\ \E j \in 1..(i - 1) : calls[j] = "select_file"
                /\ json_data.kind = "str" /\ ~json_data.empty
        /\ (json_data.kind # "unset" /\ json_data.empty) =>
             /\ \E i \in 1..Len(shown) : shown[i] = "error"
             /\ ~Called("adjust_node_height_data")
             /\ ~Called("plot_3d")
             /\ ~Called("json.loads")

\* a run that ended after select_file returned "": error shown, file removed
C8_Witness ==
    /\ pc = "done"
    /\ json_data.kind = "str" /\ json_data.empty
    /\ shown = <<"error">>
    /\ calls = <<"select_file", "os.remove">>

\* C10: a run that wrote the uploaded file to a temporary file removes it
\* before the run ends on every path (parse failure, render, exception from
\* select_file, json.loads, the height adjuster or plot_3d), and a run with no
\* upload attempts no removal.
C10_TempFileRemoved ==
    InRun =>
        /\ (pc = "done" /\ uploaded_file /\ temp_file # "partial") =>
             /\ temp_file = "removed"
             /\ calls[Len(calls)] = "os.remove"
        /\ temp_file = "written" =>
             ENABLED (SelectFile \/ JsonLoads \/ AdjustStep \/ PlotStep \/ Finally)
        /\ ~uploaded_file => /\ ~Called("os.remove")
                             /\ temp_file = "none"

\* the height adjuster raised on a document that holds no records, and the
\* file is removed all the same
C10_Witness ==
    /\ pc = "done"
    /\ pending = "TypeError"
    /\ calls = <<"select_file", "json.loads", "adjust_node_height_data", "os.remove">>
    /\ temp_file = "removed"

====
